---- MODULE Spec2Model ----
(***************************************************************************)
(* Model of gazebo_plugins/src/gazebo_ros_depth_camera.cpp: the            *)
(* subscriber-count-driven activation state machine of                     *)
(* GazeboRosDepthCamera, its frame callbacks and the lock that guards the  *)
(* PointGrid (pcd_) and the reused message buffers.                        *)
(*                                                                         *)
(* Two specifications share the state:                                     *)
(*   Spec        every callback is one atomic step (callbacks delivered    *)
(*               one after the other, in any order);                       *)
(*   ThreadSpec  the frame callbacks run on several threads and are split  *)
(*               at every lock, buffer access, publish and unlock.         *)
(***************************************************************************)
EXTENDS Integers, Sequences, FiniteSets, TLC

(***************************************************************************)
(* Bounds of the model                                                     *)
(***************************************************************************)
\* largest subscriber count a connect callback may reach
MaxCount == 1
\* how many disconnects without a matching connect are delivered in all
MaxUnder == 1
\* largest configured image width / height (0 is the zero-sized frame)
MaxWidth == 1
MaxHeight == 1
\* largest value of the sensor's last-measurement time
MaxTime == 1
\* largest depth sample, in ticks of 0.1 mm: 65.536 m
MaxDepth == 655360
\* number of threads that deliver frame callbacks
MaxThreads == 2

(***************************************************************************)
(* Program constants                                                       *)
(***************************************************************************)
\* pointCloudCutoff default 0.4 m, in ticks of 0.1 mm
point_cloud_cutoff_ == 4000
\* reduceNormals default
DefaultReduceNormals == 50
\* std::numeric_limits<float>::quiet_NaN(), a value outside every range used
NaN == -1000000

VARIABLES
    point_cloud_connect_count_,
    normals_connect_count_,
    depth_image_connect_count_,
    depth_info_connect_count_,
    reflectance_connect_count_,
    image_connect_count_,        \* *image_connect_count_, shared with the camera utils
    active,                      \* parentSensor->IsActive()
    initialized_,
    width_,
    height_,
    depth_sensor_update_time_,
    sensor_update_time_,
    pcd_,                        \* the PointGrid: [null, data]
    call,                        \* name of the callback that ran last
    entryActive,                 \* IsActive() when that callback was entered
    entryCounts,                 \* the six counters when it was entered
    requests,                    \* the SetActive(b) calls it made, in order
    published,                   \* the output kinds it published
    lock_,                       \* 0: free, t: held by thread t
    thr,                         \* per thread: position inside a frame callback
                                 \* and the shared buffers its last step touched
    toCopyFrom,                  \* the depth frame handed to the fill helpers
    use_depth_image_16UC1_format_,
    image_msg_,                  \* image_msg_.data, the cached colour buffer
    reduce_normals_,
    point_cloud_msg_,            \* the cloud built last: [by, points, rgb, is_dense]
    depth_image_msg_,            \* the raster built last: [encoding, data]
    m_array,                     \* the marker array built last: [by, grid, markers]
    projected,                   \* what the last completed projection left in pcd_
    written,                     \* what the last completed write left in pcd_
    cameraFrameToPointCloudFrame, \* the text of the SDF element
    trafostring,                 \* Load's parsing loop: the text left to parse
    token,
    pose,
    parsed,                      \* Load's parsing loop has been left
    tf_                          \* [translation, rpy]

counters == <<point_cloud_connect_count_, normals_connect_count_,
              depth_image_connect_count_, depth_info_connect_count_,
              reflectance_connect_count_, image_connect_count_>>
config == <<initialized_, width_, height_>>
stamps == <<depth_sensor_update_time_, sensor_update_time_>>
observed == <<call, entryActive, entryCounts, requests, published>>
threads == <<lock_, thr>>
conversion == <<toCopyFrom, use_depth_image_16UC1_format_, image_msg_, reduce_normals_,
                point_cloud_msg_, depth_image_msg_, m_array>>
completed == <<projected, written>>
parser == <<cameraFrameToPointCloudFrame, trafostring, token, pose, parsed, tf_>>
extra == <<conversion, completed, parser>>
vars == <<counters, active, config, stamps, pcd_, observed, threads, extra>>

Times == 0..MaxTime
Depths == point_cloud_cutoff_..MaxDepth
\* the callbacks of Spec and ThreadSpec only copy the measurement time and
\* compare samples with the cutoff: they are fed the ends of each range
EndTimes == {0, MaxTime}
EndDepths == {point_cloud_cutoff_, MaxDepth}
Threads == 1..MaxThreads

\* pcd_ == nullptr
NullPcd == [null |-> TRUE, data |-> <<>>]

\* a depth frame: width*height samples, row-major
DepthFrames(w, h) == [1..(w * h) -> Depths]
\* an RGB point cloud frame: width*height entries (x, y, z, rgb)
RGBFrames(w, h) == [1..(w * h) -> {<<0, 0, z, 0>> : z \in Depths}]
\* the frames whose samples are all the same end of the depth range
FlatDepthFrames(w, h) == {[k \in 1..(w * h) |-> d] : d \in EndDepths}
FlatRGBFrames(w, h) == {[k \in 1..(w * h) |-> <<0, 0, z, 0>>] : z \in EndDepths}

\* disconnects delivered so far without a matching connect
Under(count) == IF count < 0 THEN -count ELSE 0
Underflow == Under(point_cloud_connect_count_) + Under(normals_connect_count_)
               + Under(depth_image_connect_count_) + Under(depth_info_connect_count_)
               + Under(reflectance_connect_count_)
\* a disconnect of a counter is delivered
CanDisconnect(count) == count > 0 \/ Underflow < MaxUnder

\* what the callback that just ran did, as seen from outside
Observe(name, reqs, pubs) ==
    /\ call' = name
    /\ entryActive' = active
    /\ entryCounts' = counters
    /\ requests' = reqs
    /\ published' = pubs


(***************************************************************************)
(* Pure helpers                                                            *)
(***************************************************************************)
\* variant: the early return forgets the zero-size test
PreconditionInitializedOnly == initialized_

\* the early return shared by all frame callbacks
PreconditionMet == initialized_ /\ height_ > 0 /\ width_ > 0

\* 2*fl*tan(atan2(k - 0.5*(n-1), fl)), 0 for a single row / column
TanNum(k, n) == IF n > 1 THEN 2 * k - (n - 1) ELSE 0

\* variant: a sample equal to the cutoff counts as valid
CloudPointAtCutoff(src, rows, cols, j, i) ==
    LET depth == src[j * cols + i + 1]
    IN IF depth >= point_cloud_cutoff_
       THEN <<depth * TanNum(i, cols), depth * TanNum(j, rows), depth>>
       ELSE <<NaN, NaN, NaN>>

\* the point written to the message for pixel (i, j): x and y in units of
\* 1/(2*fl), z in depth units; all NaN at or below the cutoff
CloudPoint(src, rows, cols, j, i) ==
    LET depth == src[j * cols + i + 1]
    IN IF depth > point_cloud_cutoff_
       THEN <<depth * TanNum(i, cols), depth * TanNum(j, rows), depth>>
       ELSE <<NaN, NaN, NaN>>

\* variant: below the cutoff the x and y slots keep the tangent-scaled values
PcdEntryTangent(src, rows, cols, j, i) ==
    LET depth == src[j * cols + i + 1]
    IN <<depth * TanNum(i, cols), depth * TanNum(j, rows),
         IF depth > point_cloud_cutoff_ THEN depth ELSE 0, 0>>

\* the entry written to pcd_ for pixel (i, j)
PcdEntry(src, rows, cols, j, i) ==
    LET depth == src[j * cols + i + 1]
        pt == CloudPoint(src, rows, cols, j, i)
    IN <<pt[1], pt[2], IF depth > point_cloud_cutoff_ THEN pt[3] ELSE 0, 0>>

\* FillPointCloudHelper: the message points, the dense flag and the new pcd_
FillPointCloudHelper(rows, cols, src) ==
    [points |-> [k \in 1..(rows * cols) |->
                    CloudPoint(src, rows, cols, (k - 1) \div cols, (k - 1) % cols)],
     is_dense |-> \A k \in 1..(rows * cols) : src[k] > point_cloud_cutoff_,
     pcd |-> [null |-> FALSE,
              data |-> [k \in 1..(rows * cols) |->
                    PcdEntry(src, rows, cols, (k - 1) \div cols, (k - 1) % cols)]]]

(***************************************************************************)
(* State after construction and Load                                       *)
(***************************************************************************)
\* no message built yet
NoMsg == [by |-> "none"]

\* nothing converted yet, default encoding and stride, no colour frame cached
NoConversion ==
    /\ toCopyFrom = <<>>
    /\ use_depth_image_16UC1_format_ = FALSE
    /\ image_msg_ = <<>>
    /\ reduce_normals_ = DefaultReduceNormals
    /\ point_cloud_msg_ = NoMsg
    /\ depth_image_msg_ = NoMsg
    /\ m_array = NoMsg

\* pcd_ not written yet
NothingCompleted == projected = NullPcd /\ written = NullPcd

\* geometry_msgs::Transform()
IdentityTransform == [translation |-> <<0, 0, 0>>, rpy |-> <<0, 0, 0>>]

\* no cameraFrameToPointCloudFrame element: the loop is not entered
NoTransform ==
    /\ cameraFrameToPointCloudFrame = <<>>
    /\ trafostring = <<>>
    /\ token = <<>>
    /\ pose = <<>>
    /\ parsed = TRUE
    /\ tf_ = IdentityTransform

Init ==
    /\ point_cloud_connect_count_ = 0
    /\ normals_connect_count_ = 0
    /\ depth_image_connect_count_ = 0
    /\ depth_info_connect_count_ = 0
    /\ reflectance_connect_count_ = 0
    /\ image_connect_count_ = 0
    /\ active \in BOOLEAN
    /\ initialized_ = FALSE
    /\ width_ \in {0, MaxWidth}
    /\ height_ \in {0, MaxHeight}
    /\ depth_sensor_update_time_ = 0
    /\ sensor_update_time_ = 0
    /\ pcd_ = NullPcd
    /\ call = "none"
    /\ entryActive = active
    /\ entryCounts = <<0, 0, 0, 0, 0, 0>>
    /\ requests = <<>>
    /\ published = {}
    /\ lock_ = 0
    /\ thr = [t \in Threads |-> [pc |-> "idle", touch |-> {}]]
    /\ NoConversion
    /\ NothingCompleted
    /\ NoTransform

\* GazeboRosCameraUtils::Init finishing: frames are processed from now on
CameraUtilsInit ==
    /\ ~initialized_
    /\ initialized_' = TRUE
    /\ Observe("CameraUtilsInit", <<>>, {})
    /\ UNCHANGED <<counters, active, width_, height_, stamps, pcd_, threads, extra>>

(***************************************************************************)
(* Connect / disconnect callbacks                                          *)
(***************************************************************************)
\* variant: the connect leaves activation to the next frame callback
PointCloudConnectLazy ==
    /\ point_cloud_connect_count_ < MaxCount
    /\ point_cloud_connect_count_' = point_cloud_connect_count_ + 1
    /\ image_connect_count_' = image_connect_count_ + 1
    /\ active' = active
    /\ Observe("PointCloudConnect", <<>>, {})
    /\ UNCHANGED <<normals_connect_count_, depth_image_connect_count_,
                   depth_info_connect_count_, reflectance_connect_count_,
                   config, stamps, pcd_, threads, extra>>

PointCloudConnect ==
    /\ point_cloud_connect_count_ < MaxCount
    /\ point_cloud_connect_count_' = point_cloud_connect_count_ + 1
    /\ image_connect_count_' = image_connect_count_ + 1
    /\ active' = TRUE
    /\ Observe("PointCloudConnect", <<TRUE>>, {})
    /\ UNCHANGED <<normals_connect_count_, depth_image_connect_count_,
                   depth_info_connect_count_, reflectance_connect_count_,
                   config, stamps, pcd_, threads, extra>>

PointCloudDisconnect ==
    /\ CanDisconnect(point_cloud_connect_count_)
    /\ point_cloud_connect_count_' = point_cloud_connect_count_ - 1
    /\ image_connect_count_' = image_connect_count_ - 1
    /\ IF point_cloud_connect_count_' <= 0
       THEN active' = FALSE /\ Observe("PointCloudDisconnect", <<FALSE>>, {})
       ELSE active' = active /\ Observe("PointCloudDisconnect", <<>>, {})
    /\ UNCHANGED <<normals_connect_count_, depth_image_connect_count_,
                   depth_info_connect_count_, reflectance_connect_count_,
                   config, stamps, pcd_, threads, extra>>

\* variant: the combined image counter is not incremented
ReflectanceConnectOwnOnly ==
    /\ reflectance_connect_count_ < MaxCount
    /\ reflectance_connect_count_' = reflectance_connect_count_ + 1
    /\ active' = TRUE
    /\ Observe("ReflectanceConnect", <<TRUE>>, {})
    /\ UNCHANGED <<point_cloud_connect_count_, normals_connect_count_,
                   depth_image_connect_count_, depth_info_connect_count_,
                   image_connect_count_, config, stamps, pcd_, threads, extra>>

ReflectanceConnect ==
    /\ reflectance_connect_count_ < MaxCount
    /\ reflectance_connect_count_' = reflectance_connect_count_ + 1
    /\ image_connect_count_' = image_connect_count_ + 1
    /\ active' = TRUE
    /\ Observe("ReflectanceConnect", <<TRUE>>, {})
    /\ UNCHANGED <<point_cloud_connect_count_, normals_connect_count_,
                   depth_image_connect_count_, depth_info_connect_count_,
                   config, stamps, pcd_, threads, extra>>

NormalsConnect ==
    /\ normals_connect_count_ < MaxCount
    /\ normals_connect_count_' = normals_connect_count_ + 1
    /\ image_connect_count_' = image_connect_count_ + 1
    /\ active' = TRUE
    /\ Observe("NormalsConnect", <<TRUE>>, {})
    /\ UNCHANGED <<point_cloud_connect_count_, depth_image_connect_count_,
                   depth_info_connect_count_, reflectance_connect_count_,
                   config, stamps, pcd_, threads, extra>>

ReflectanceDisconnect ==
    /\ CanDisconnect(reflectance_connect_count_)
    /\ reflectance_connect_count_' = reflectance_connect_count_ - 1
    /\ image_connect_count_' = image_connect_count_ - 1
    /\ IF reflectance_connect_count_' <= 0
       THEN active' = FALSE /\ Observe("ReflectanceDisconnect", <<FALSE>>, {})
       ELSE active' = active /\ Observe("ReflectanceDisconnect", <<>>, {})
    /\ UNCHANGED <<point_cloud_connect_count_, normals_connect_count_,
                   depth_image_connect_count_, depth_info_connect_count_,
                   config, stamps, pcd_, threads, extra>>

\* tests the reflectance counter, as the source does
NormalsDisconnect ==
    /\ CanDisconnect(normals_connect_count_)
    /\ normals_connect_count_' = normals_connect_count_ - 1
    /\ image_connect_count_' = image_connect_count_ - 1
    /\ IF reflectance_connect_count_ <= 0
       THEN active' = FALSE /\ Observe("NormalsDisconnect", <<FALSE>>, {})
       ELSE active' = active /\ Observe("NormalsDisconnect", <<>>, {})
    /\ UNCHANGED <<point_cloud_connect_count_, depth_image_connect_count_,
                   depth_info_connect_count_, reflectance_connect_count_,
                   config, stamps, pcd_, threads, extra>>

\* variant: the depth-raster connect only counts, like the depth-metadata one
DepthImageConnectCountOnly ==
    /\ depth_image_connect_count_ < MaxCount
    /\ depth_image_connect_count_' = depth_image_connect_count_ + 1
    /\ Observe("DepthImageConnect", <<>>, {})
    /\ UNCHANGED <<point_cloud_connect_count_, normals_connect_count_,
                   depth_info_connect_count_, reflectance_connect_count_,
                   image_connect_count_, active, config, stamps, pcd_, threads, extra>>

DepthImageConnect ==
    /\ depth_image_connect_count_ < MaxCount
    /\ depth_image_connect_count_' = depth_image_connect_count_ + 1
    /\ active' = TRUE
    /\ Observe("DepthImageConnect", <<TRUE>>, {})
    /\ UNCHANGED <<point_cloud_connect_count_, normals_connect_count_,
                   depth_info_connect_count_, reflectance_connect_count_,
                   image_connect_count_, config, stamps, pcd_, threads, extra>>

DepthImageDisconnect ==
    /\ CanDisconnect(depth_image_connect_count_)
    /\ depth_image_connect_count_' = depth_image_connect_count_ - 1
    /\ Observe("DepthImageDisconnect", <<>>, {})
    /\ UNCHANGED <<point_cloud_connect_count_, normals_connect_count_,
                   depth_info_connect_count_, reflectance_connect_count_,
                   image_connect_count_, active, config, stamps, pcd_, threads, extra>>

DepthInfoConnect ==
    /\ depth_info_connect_count_ < MaxCount
    /\ depth_info_connect_count_' = depth_info_connect_count_ + 1
    /\ Observe("DepthInfoConnect", <<>>, {})
    /\ UNCHANGED <<point_cloud_connect_count_, normals_connect_count_,
                   depth_image_connect_count_, reflectance_connect_count_,
                   image_connect_count_, active, config, stamps, pcd_, threads, extra>>

\* variant: the disconnect is not counted
DepthInfoDisconnectUncounted ==
    /\ CanDisconnect(depth_info_connect_count_)
    /\ depth_info_connect_count_' = depth_info_connect_count_
    /\ Observe("DepthInfoDisconnect", <<>>, {})
    /\ UNCHANGED <<point_cloud_connect_count_, normals_connect_count_,
                   depth_image_connect_count_, reflectance_connect_count_,
                   image_connect_count_, active, config, stamps, pcd_, threads, extra>>

DepthInfoDisconnect ==
    /\ CanDisconnect(depth_info_connect_count_)
    /\ depth_info_connect_count_' = depth_info_connect_count_ - 1
    /\ Observe("DepthInfoDisconnect", <<>>, {})
    /\ UNCHANGED <<point_cloud_connect_count_, normals_connect_count_,
                   depth_image_connect_count_, reflectance_connect_count_,
                   image_connect_count_, active, config, stamps, pcd_, threads, extra>>


(***************************************************************************)
(* Frame callbacks, each as one step                                       *)
(***************************************************************************)
\* the early return: nothing but the fact that the callback ran
EarlyReturn(name) ==
    /\ Observe(name, <<>>, {})
    /\ UNCHANGED <<counters, active, config, stamps, pcd_, threads, extra>>

\* OnNewDepthFrame, device active: no consumer of any kind tested here
DepthFrameDeactivates ==
    /\ point_cloud_connect_count_ <= 0
    /\ depth_image_connect_count_ <= 0
    /\ image_connect_count_ <= 0
    /\ normals_connect_count_ <= 0

\* OnNewDepthFrame, device active: FillPointdCloud is called
DepthFrameFillsCloud ==
    point_cloud_connect_count_ > 0 \/ normals_connect_count_ > 0

\* variant: the depth raster is filled whatever its subscriber count
DepthFrameFillsImageAlways == TRUE

\* OnNewDepthFrame, device active: FillDepthImage is called
DepthFrameFillsImage == depth_image_connect_count_ > 0

\* OnNewDepthFrame, device inactive: SetActive(true) is called
DepthFrameActivates ==
    point_cloud_connect_count_ > 0 \/ depth_image_connect_count_ <= 0

OnNewDepthFrame ==
    \E _image \in FlatDepthFrames(width_, height_), t \in EndTimes :
      IF ~PreconditionMet
      THEN EarlyReturn("OnNewDepthFrame")
      ELSE
        /\ depth_sensor_update_time_' = t
        /\ IF active
           THEN IF DepthFrameDeactivates
                THEN /\ active' = FALSE
                     /\ pcd_' = pcd_
                     /\ Observe("OnNewDepthFrame", <<FALSE>>, {})
                ELSE /\ active' = active
                     /\ pcd_' = IF DepthFrameFillsCloud
                                THEN FillPointCloudHelper(height_, width_, _image).pcd
                                ELSE pcd_
                     /\ Observe("OnNewDepthFrame", <<>>,
                           (IF DepthFrameFillsCloud THEN {"pointcloud"} ELSE {})
                           \cup (IF DepthFrameFillsImage THEN {"depth"} ELSE {}))
           ELSE /\ pcd_' = pcd_
                /\ IF DepthFrameActivates
                   THEN active' = TRUE /\ Observe("OnNewDepthFrame", <<TRUE>>, {})
                   ELSE active' = active /\ Observe("OnNewDepthFrame", <<>>, {})
        /\ UNCHANGED <<counters, config, sensor_update_time_, threads, extra>>

\* OnNewRGBPointCloud, device active: the cloud is copied and published
RGBFillsCloud ==
    point_cloud_connect_count_ > 0 \/ normals_connect_count_ > 0

OnNewRGBPointCloud ==
    \E _pcd \in FlatRGBFrames(width_, height_), t \in EndTimes :
      IF ~PreconditionMet
      THEN EarlyReturn("OnNewRGBPointCloud")
      ELSE
        /\ depth_sensor_update_time_' = t
        /\ IF ~active
           THEN /\ pcd_' = pcd_
                /\ IF point_cloud_connect_count_ > 0
                   THEN active' = TRUE /\ Observe("OnNewRGBPointCloud", <<TRUE>>, {})
                   ELSE active' = active /\ Observe("OnNewRGBPointCloud", <<>>, {})
           ELSE /\ active' = active
                /\ IF RGBFillsCloud
                   THEN /\ pcd_' = [null |-> FALSE, data |-> _pcd]
                        /\ Observe("OnNewRGBPointCloud", <<>>, {"pointcloud"})
                   ELSE /\ pcd_' = pcd_
                        /\ Observe("OnNewRGBPointCloud", <<>>, {})
        /\ UNCHANGED <<counters, config, sensor_update_time_, threads, extra>>

\* OnNewReflectanceFrame publishes: the subscriber count alone is tested
ReflectancePublishes == reflectance_connect_count_ > 0

OnNewReflectanceFrame ==
    IF ~PreconditionMet
    THEN EarlyReturn("OnNewReflectanceFrame")
    ELSE
      /\ Observe("OnNewReflectanceFrame", <<>>,
                 IF ReflectancePublishes THEN {"reflectance"} ELSE {})
      /\ UNCHANGED <<counters, active, config, stamps, pcd_, threads, extra>>

\* GazeboRosCameraUtils::PutCameraData: publishes the colour image to its
\* subscribers
PutCameraData == IF image_connect_count_ > 0 THEN {"image"} ELSE {}

OnNewImageFrame ==
    \E t \in EndTimes :
      IF ~PreconditionMet
      THEN EarlyReturn("OnNewImageFrame")
      ELSE
        /\ sensor_update_time_' = t
        /\ IF ~active
           THEN IF image_connect_count_ > 0
                THEN active' = TRUE /\ Observe("OnNewImageFrame", <<TRUE>>, {})
                ELSE active' = active /\ Observe("OnNewImageFrame", <<>>, {})
           ELSE /\ active' = active
                /\ Observe("OnNewImageFrame", <<>>,
                      IF image_connect_count_ > 0 THEN PutCameraData ELSE {})
        /\ UNCHANGED <<counters, config, depth_sensor_update_time_, pcd_, threads, extra>>

\* variant: the subscriber test is off by one
NormalsPublishesAtZero == normals_connect_count_ >= 0

\* OnNewNormalsFrame, device active: the marker array is built and published
NormalsPublishes == normals_connect_count_ > 0

OnNewNormalsFrame ==
    IF ~PreconditionMet
    THEN EarlyReturn("OnNewNormalsFrame")
    ELSE
      /\ IF ~active
         THEN IF normals_connect_count_ > 0
              THEN active' = TRUE /\ Observe("OnNewNormalsFrame", <<TRUE>>, {})
              ELSE active' = active /\ Observe("OnNewNormalsFrame", <<>>, {})
         ELSE /\ active' = active
              /\ Observe("OnNewNormalsFrame", <<>>,
                    IF NormalsPublishes THEN {"markers"} ELSE {})
      /\ UNCHANGED <<counters, config, stamps, pcd_, threads, extra>>

Connect ==
    \/ PointCloudConnect
    \/ ReflectanceConnect
    \/ NormalsConnect
    \/ DepthImageConnect
    \/ DepthInfoConnect

Disconnect ==
    \/ PointCloudDisconnect
    \/ ReflectanceDisconnect
    \/ NormalsDisconnect
    \/ DepthImageDisconnect
    \/ DepthInfoDisconnect

Frame ==
    \/ OnNewDepthFrame
    \/ OnNewRGBPointCloud
    \/ OnNewReflectanceFrame
    \/ OnNewImageFrame
    \/ OnNewNormalsFrame

Next == CameraUtilsInit \/ Connect \/ Disconnect \/ Frame

Spec == Init /\ [][Next]_vars


(***************************************************************************)
(* Properties of the activation state machine (checked under Spec)         *)
(***************************************************************************)
FrameCalls == {"OnNewDepthFrame", "OnNewRGBPointCloud", "OnNewReflectanceFrame",
               "OnNewImageFrame", "OnNewNormalsFrame"}

\* the frame callback that ran was not stopped by its early return
Ready == initialized_ /\ width_ # 0 /\ height_ # 0

\* positions of the counters in entryCounts
EntryPointCloud == entryCounts[1]
EntryNormals == entryCounts[2]
EntryDepthImage == entryCounts[3]
EntryDepthInfo == entryCounts[4]
EntryReflectance == entryCounts[5]
EntryImage == entryCounts[6]

NoConsumer ==
    /\ point_cloud_connect_count_ <= 0
    /\ depth_image_connect_count_ <= 0
    /\ normals_connect_count_ <= 0
    /\ reflectance_connect_count_ <= 0
    /\ image_connect_count_ <= 0

\* C1: with no consumer attached (point-cloud, depth-raster, normals,
\* reflectance and combined image counters all <= 0), a processed
\* OnNewDepthFrame call ends with the device inactive.
C1_LazyActivation ==
    (call = "OnNewDepthFrame" /\ Ready /\ NoConsumer) => ~active

\* C2: a disconnect of kind K requests deactivation exactly when K is point
\* cloud, normals or reflectance and K's own counter is <= 0 after the
\* decrement; depth-raster and depth-metadata disconnects only decrement.
C2_DisconnectDeactivation ==
    /\ call = "PointCloudDisconnect" =>
          /\ point_cloud_connect_count_ = EntryPointCloud - 1
          /\ requests = IF point_cloud_connect_count_ <= 0 THEN <<FALSE>> ELSE <<>>
    /\ call = "NormalsDisconnect" =>
          /\ normals_connect_count_ = EntryNormals - 1
          /\ requests = IF normals_connect_count_ <= 0 THEN <<FALSE>> ELSE <<>>
    /\ call = "ReflectanceDisconnect" =>
          /\ reflectance_connect_count_ = EntryReflectance - 1
          /\ requests = IF reflectance_connect_count_ <= 0 THEN <<FALSE>> ELSE <<>>
    /\ call = "DepthImageDisconnect" =>
          /\ depth_image_connect_count_ = EntryDepthImage - 1
          /\ requests = <<>> /\ active = entryActive
    /\ call = "DepthInfoDisconnect" =>
          /\ depth_info_connect_count_ = EntryDepthInfo - 1
          /\ requests = <<>> /\ active = entryActive

\* C3 as stated: each of the five connect callbacks increments its counter and
\* leaves the device active, having requested activation if it was inactive.
C3_EveryConnectActivates ==
    /\ call = "PointCloudConnect" =>
          point_cloud_connect_count_ = EntryPointCloud + 1 /\ active
    /\ call = "DepthImageConnect" =>
          depth_image_connect_count_ = EntryDepthImage + 1 /\ active
    /\ call = "DepthInfoConnect" =>
          depth_info_connect_count_ = EntryDepthInfo + 1 /\ active
    /\ call = "NormalsConnect" =>
          normals_connect_count_ = EntryNormals + 1 /\ active
    /\ call = "ReflectanceConnect" =>
          reflectance_connect_count_ = EntryReflectance + 1 /\ active
    /\ (call \in {"PointCloudConnect", "DepthImageConnect", "DepthInfoConnect",
                  "NormalsConnect", "ReflectanceConnect"} /\ ~entryActive)
          => requests = <<TRUE>>

\* C3 amended: the point-cloud, depth-raster, normals and reflectance connect
\* callbacks increment their counter, request activation and leave the device
\* active; the depth-metadata connect callback only increments its counter and
\* leaves the device as it found it.
C3_ConnectActivates ==
    /\ call = "PointCloudConnect" =>
          /\ point_cloud_connect_count_ = EntryPointCloud + 1
          /\ requests = <<TRUE>> /\ active
    /\ call = "DepthImageConnect" =>
          /\ depth_image_connect_count_ = EntryDepthImage + 1
          /\ requests = <<TRUE>> /\ active
    /\ call = "NormalsConnect" =>
          /\ normals_connect_count_ = EntryNormals + 1
          /\ requests = <<TRUE>> /\ active
    /\ call = "ReflectanceConnect" =>
          /\ reflectance_connect_count_ = EntryReflectance + 1
          /\ requests = <<TRUE>> /\ active
    /\ call = "DepthInfoConnect" =>
          /\ depth_info_connect_count_ = EntryDepthInfo + 1
          /\ requests = <<>> /\ active = entryActive

\* a connect callback found the device inactive and left it active
C3_Witness ==
    call = "DepthImageConnect" /\ ~entryActive /\ active

\* C4: a processed OnNewDepthFrame call that finds the device inactive while
\* the point-cloud, depth-raster or normals counter is > 0 requests activation
\* and publishes nothing.
C4_InactiveFrameActivates ==
    (/\ call = "OnNewDepthFrame" /\ Ready /\ ~entryActive
     /\ \/ point_cloud_connect_count_ > 0
        \/ depth_image_connect_count_ > 0
        \/ normals_connect_count_ > 0)
    => (requests = <<TRUE>> /\ published = {})


\* the callback that just ran took its own counter from 0 to 1 and found the
\* device inactive
ZeroToOneWhileInactive ==
    /\ ~entryActive
    /\ \/ call = "PointCloudConnect" /\ EntryPointCloud = 0
       \/ call = "DepthImageConnect" /\ EntryDepthImage = 0
       \/ call = "DepthInfoConnect" /\ EntryDepthInfo = 0
       \/ call = "NormalsConnect" /\ EntryNormals = 0
       \/ call = "ReflectanceConnect" /\ EntryReflectance = 0

\* C5 as stated: after a 0 -> 1 connect on an inactive device, the frame
\* callback delivered right after it publishes nothing, and exactly one
\* activation request has been made by then.
C5_ActivationLag ==
    [][(ZeroToOneWhileInactive /\ call' \in FrameCalls)
         => /\ published' = {}
            /\ requests \o requests' = <<TRUE>>]_vars

\* the frame callback that just ran found the device inactive and activated it
LagFrame ==
    /\ call \in {"OnNewDepthFrame", "OnNewRGBPointCloud", "OnNewImageFrame",
                 "OnNewNormalsFrame"}
    /\ ~entryActive
    /\ requests = <<TRUE>>

\* C5 amended: a 0 -> 1 point-cloud, depth-raster, normals or reflectance
\* connect on an inactive device makes exactly one activation request and
\* returns with the device active, so the zero-output frame does not follow a
\* connect; it is the depth, RGB point-cloud, colour or normals frame callback
\* that itself finds the device inactive which publishes nothing and makes at
\* most one activation request, after which the device is active; and every
\* processed OnNewDepthFrame that finds the device active with the point-cloud
\* counter > 0 publishes the cloud.
C5_ActivationLagAmended ==
    /\ (ZeroToOneWhileInactive /\ call # "DepthInfoConnect")
          => (requests = <<TRUE>> /\ active)
    /\ (call \in {"OnNewDepthFrame", "OnNewRGBPointCloud", "OnNewImageFrame",
                  "OnNewNormalsFrame"} /\ ~entryActive)
          => /\ published = {}
             /\ requests \in {<<>>, <<TRUE>>}
             /\ active = (requests = <<TRUE>>)
    /\ (call = "OnNewDepthFrame" /\ Ready /\ entryActive
        /\ point_cloud_connect_count_ > 0)
          => "pointcloud" \in published

\* a depth frame found the device inactive with a point-cloud consumer attached
C5_Witness ==
    LagFrame /\ call = "OnNewDepthFrame" /\ point_cloud_connect_count_ > 0

\* C6: a frame callback that finds the device inactive publishes nothing.
C6_ActivationGatesOutputs ==
    (call \in FrameCalls /\ ~entryActive) => published = {}

\* the subscriber counter of an output kind
OwnCount(kind) ==
    CASE kind = "pointcloud" -> point_cloud_connect_count_
      [] kind = "depth" -> depth_image_connect_count_
      [] kind = "markers" -> normals_connect_count_
      [] kind = "reflectance" -> reflectance_connect_count_
      [] kind = "image" -> image_connect_count_

\* C7 as stated: a frame callback publishes a kind only if that kind's own
\* counter is > 0, and OnNewDepthFrame publishes a depth raster exactly when
\* the plugin is initialized, the device was active and the depth-raster
\* counter is > 0.
C7_OwnSubscribers ==
    /\ call \in FrameCalls =>
          \A kind \in published \ {"image"} : OwnCount(kind) > 0
    /\ call = "OnNewDepthFrame" =>
          ("depth" \in published
             <=> (initialized_ /\ entryActive /\ depth_image_connect_count_ > 0))

\* C7 amended: a depth raster, a marker set and a reflectance image are
\* published only if their own counter is > 0, a point cloud only if the
\* point-cloud or the normals counter is > 0; OnNewDepthFrame publishes a depth
\* raster exactly when the plugin is initialized, the configured width and
\* height are non-zero, the device was active and the depth-raster counter > 0.
C7_Subscribers ==
    /\ call \in FrameCalls =>
          /\ \A kind \in published \ {"image", "pointcloud"} : OwnCount(kind) > 0
          /\ "pointcloud" \in published =>
                (point_cloud_connect_count_ > 0 \/ normals_connect_count_ > 0)
    /\ call = "OnNewDepthFrame" =>
          ("depth" \in published
             <=> (Ready /\ entryActive /\ depth_image_connect_count_ > 0))

\* a depth frame published a cloud for the normals consumers, and a raster
C7_Witness ==
    /\ call = "OnNewDepthFrame"
    /\ published = {"pointcloud", "depth"}
    /\ point_cloud_connect_count_ <= 0

\* C8: OnNewNormalsFrame publishes markers only when the normals counter is
\* > 0 and the device was active; a processed call that finds the device
\* inactive with the normals counter > 0 requests activation and publishes
\* nothing; with the normals counter <= 0 it neither publishes nor touches the
\* device.
C8_NormalsFrame ==
    call = "OnNewNormalsFrame" =>
       /\ published \subseteq {"markers"}
       /\ "markers" \in published => (normals_connect_count_ > 0 /\ entryActive)
       /\ (Ready /\ entryActive /\ normals_connect_count_ > 0)
             => (published = {"markers"} /\ requests = <<>>)
       /\ (Ready /\ ~entryActive /\ normals_connect_count_ > 0)
             => (published = {} /\ requests = <<TRUE>> /\ active)
       /\ normals_connect_count_ <= 0
             => (published = {} /\ requests = <<>> /\ active = entryActive)

\* a normals frame found the device inactive with a normals consumer attached
C8_Witness ==
    /\ call = "OnNewNormalsFrame" /\ Ready
    /\ ~entryActive /\ normals_connect_count_ > 0

\* C9: a frame callback invoked while the plugin is not initialized, or with
\* a zero width or height, publishes nothing, makes no request and leaves the
\* counters, the device, the PointGrid and the stored timestamps unchanged.
\* (While the precondition is unmet it has never been met, so "unchanged" for
\* the PointGrid and the timestamps is: still as constructed.)
C9_PreconditionNoOp ==
    (call \in FrameCalls /\ ~Ready)
       => /\ published = {}
          /\ requests = <<>>
          /\ counters = entryCounts
          /\ active = entryActive
          /\ pcd_ = NullPcd
          /\ depth_sensor_update_time_ = 0
          /\ sensor_update_time_ = 0

\* a frame callback ran on an initialized plugin with a zero-sized frame
C9_Witness ==
    call \in FrameCalls /\ initialized_ /\ (width_ = 0 \/ height_ = 0)


(***************************************************************************)
(* The frame callbacks on concurrent threads, one step per lock, buffer    *)
(* access, publish and unlock                                              *)
(***************************************************************************)
At(t, loc) == thr[t].pc = loc

Goto(t, loc, touched) ==
    thr' = [thr EXCEPT ![t] = [pc |-> loc, touch |-> touched]]

\* boost::mutex lock(): waits until the mutex is free
Acquire(t) == lock_ = 0 /\ lock_' = t

\* boost::mutex unlock(), or the end of a scoped_lock
Release(t) == lock_' = 0

\* a plugin that is loaded and initialized, with any set of consumers attached
ThreadInit ==
    /\ point_cloud_connect_count_ \in {0, MaxCount}
    /\ normals_connect_count_ \in {0, MaxCount}
    /\ depth_image_connect_count_ \in {0, MaxCount}
    /\ depth_info_connect_count_ = 0
    /\ reflectance_connect_count_ \in {0, MaxCount}
    /\ image_connect_count_ = point_cloud_connect_count_
                                + normals_connect_count_ + reflectance_connect_count_
    /\ active \in BOOLEAN
    /\ initialized_ = TRUE
    /\ width_ = MaxWidth
    /\ height_ = MaxHeight
    /\ depth_sensor_update_time_ = 0
    /\ sensor_update_time_ = 0
    /\ pcd_ = NullPcd
    /\ call = "none"
    /\ entryActive = active
    /\ entryCounts = counters
    /\ requests = <<>>
    /\ published = {}
    /\ lock_ = 0
    /\ thr = [t \in Threads |-> [pc |-> "idle", touch |-> {}]]
    /\ NoConversion
    /\ NothingCompleted
    /\ NoTransform

\* OnNewDepthFrame up to its first call of FillPointdCloud / FillDepthImage
DepthFrameEnter(t) ==
    /\ At(t, "idle")
    /\ PreconditionMet
    /\ \E tm \in EndTimes : depth_sensor_update_time_' = tm
    /\ IF active
       THEN IF DepthFrameDeactivates
            THEN active' = FALSE /\ Goto(t, "idle", {})
            ELSE /\ active' = active
                 /\ IF DepthFrameFillsCloud
                    THEN Goto(t, "cloud_lock", {})
                    ELSE Goto(t, "raster_check", {})
       ELSE /\ active' = IF DepthFrameActivates THEN TRUE ELSE active
            /\ Goto(t, "idle", {})
    /\ UNCHANGED <<counters, config, sensor_update_time_, pcd_, observed, lock_, extra>>

FillPointdCloudLock(t) ==
    /\ At(t, "cloud_lock")
    /\ Acquire(t)
    /\ Goto(t, "cloud_fill", {})
    /\ UNCHANGED <<counters, active, config, stamps, pcd_, observed, extra>>

\* FillPointCloudHelper: writes pcd_
FillPointdCloudFill(t) ==
    /\ At(t, "cloud_fill")
    /\ \E _image \in FlatDepthFrames(width_, height_) :
          pcd_' = FillPointCloudHelper(height_, width_, _image).pcd
    /\ Goto(t, "cloud_publish", {"pcd_"})
    /\ UNCHANGED <<counters, active, config, stamps, observed, lock_, extra>>

\* doTransform into point_cloud_msg_ and publish of point_cloud_msg_
FillPointdCloudPublish(t) ==
    /\ At(t, "cloud_publish")
    /\ Goto(t, "cloud_unlock", {"point_cloud_msg_"})
    /\ UNCHANGED <<counters, active, config, stamps, pcd_, observed, lock_, extra>>

\* variant: the grid is freed when the cloud has been published
FillPointdCloudUnlockFrees(t) ==
    /\ At(t, "cloud_unlock")
    /\ Release(t)
    /\ pcd_' = NullPcd
    /\ Goto(t, "raster_check", {})
    /\ UNCHANGED <<counters, active, config, stamps, observed, extra>>

FillPointdCloudUnlock(t) ==
    /\ At(t, "cloud_unlock")
    /\ Release(t)
    /\ Goto(t, "raster_check", {})
    /\ UNCHANGED <<counters, active, config, stamps, pcd_, observed, extra>>

\* OnNewDepthFrame after FillPointdCloud: the depth-raster counter is tested
DepthFrameRasterCheck(t) ==
    /\ At(t, "raster_check")
    /\ IF DepthFrameFillsImage
       THEN Goto(t, "raster_lock", {})
       ELSE Goto(t, "idle", {})
    /\ UNCHANGED <<counters, active, config, stamps, pcd_, observed, lock_, extra>>

\* variant: FillDepthImage fills and publishes without taking the lock
FillDepthImageNoLock(t) ==
    /\ At(t, "raster_lock")
    /\ Goto(t, "raster_fill", {})
    /\ UNCHANGED <<counters, active, config, stamps, pcd_, observed, lock_, extra>>

FillDepthImageLock(t) ==
    /\ At(t, "raster_lock")
    /\ Acquire(t)
    /\ Goto(t, "raster_fill", {})
    /\ UNCHANGED <<counters, active, config, stamps, pcd_, observed, extra>>

\* header and FillDepthImageHelper: writes depth_image_msg_
FillDepthImageFill(t) ==
    /\ At(t, "raster_fill")
    /\ Goto(t, "raster_publish", {"depth_image_msg_"})
    /\ UNCHANGED <<counters, active, config, stamps, pcd_, observed, lock_, extra>>

FillDepthImagePublish(t) ==
    /\ At(t, "raster_publish")
    /\ Goto(t, "raster_unlock", {"depth_image_msg_"})
    /\ UNCHANGED <<counters, active, config, stamps, pcd_, observed, lock_, extra>>

\* variant: FillDepthImage returns without unlocking
FillDepthImageReturnsLocked(t) ==
    /\ At(t, "raster_unlock")
    /\ lock_' = lock_
    /\ Goto(t, "idle", {})
    /\ UNCHANGED <<counters, active, config, stamps, pcd_, observed, extra>>

FillDepthImageUnlock(t) ==
    /\ At(t, "raster_unlock")
    /\ Release(t)
    /\ Goto(t, "idle", {})
    /\ UNCHANGED <<counters, active, config, stamps, pcd_, observed, extra>>

\* OnNewRGBPointCloud up to lock_.lock()
RGBPointCloudEnter(t) ==
    /\ At(t, "idle")
    /\ PreconditionMet
    /\ \E tm \in EndTimes : depth_sensor_update_time_' = tm
    /\ IF ~active
       THEN /\ active' = IF point_cloud_connect_count_ > 0 THEN TRUE ELSE active
            /\ Goto(t, "idle", {})
       ELSE /\ active' = active
            /\ IF RGBFillsCloud
               THEN Goto(t, "rgb_lock", {})
               ELSE Goto(t, "idle", {})
    /\ UNCHANGED <<counters, config, sensor_update_time_, pcd_, observed, lock_, extra>>

RGBPointCloudLock(t) ==
    /\ At(t, "rgb_lock")
    /\ Acquire(t)
    /\ Goto(t, "rgb_fill", {})
    /\ UNCHANGED <<counters, active, config, stamps, pcd_, observed, extra>>

\* allocation of pcd_ and memcpy into it
RGBPointCloudFill(t) ==
    /\ At(t, "rgb_fill")
    /\ \E _pcd \in FlatRGBFrames(width_, height_) :
          pcd_' = [null |-> FALSE, data |-> _pcd]
    /\ Goto(t, "rgb_publish", {"pcd_"})
    /\ UNCHANGED <<counters, active, config, stamps, observed, lock_, extra>>

RGBPointCloudPublish(t) ==
    /\ At(t, "rgb_publish")
    /\ Goto(t, "rgb_unlock", {"point_cloud_msg_"})
    /\ UNCHANGED <<counters, active, config, stamps, pcd_, observed, lock_, extra>>

RGBPointCloudUnlock(t) ==
    /\ At(t, "rgb_unlock")
    /\ Release(t)
    /\ Goto(t, "idle", {})
    /\ UNCHANGED <<counters, active, config, stamps, pcd_, observed, extra>>

\* OnNewReflectanceFrame up to its scoped_lock
ReflectanceEnter(t) ==
    /\ At(t, "idle")
    /\ PreconditionMet
    /\ ReflectancePublishes
    /\ Goto(t, "reflectance_lock", {})
    /\ UNCHANGED <<counters, active, config, stamps, pcd_, observed, lock_, extra>>

ReflectanceLock(t) ==
    /\ At(t, "reflectance_lock")
    /\ Acquire(t)
    /\ Goto(t, "reflectance_fill", {})
    /\ UNCHANGED <<counters, active, config, stamps, pcd_, observed, extra>>

\* header and fillImage: writes reflectance_msg_
ReflectanceFill(t) ==
    /\ At(t, "reflectance_fill")
    /\ Goto(t, "reflectance_publish", {"reflectance_msg_"})
    /\ UNCHANGED <<counters, active, config, stamps, pcd_, observed, lock_, extra>>

ReflectancePublish(t) ==
    /\ At(t, "reflectance_publish")
    /\ Goto(t, "reflectance_unlock", {"reflectance_msg_"})
    /\ UNCHANGED <<counters, active, config, stamps, pcd_, observed, lock_, extra>>

ReflectanceUnlock(t) ==
    /\ At(t, "reflectance_unlock")
    /\ Release(t)
    /\ Goto(t, "idle", {})
    /\ UNCHANGED <<counters, active, config, stamps, pcd_, observed, extra>>

\* OnNewNormalsFrame up to its scoped_lock
NormalsEnter(t) ==
    /\ At(t, "idle")
    /\ PreconditionMet
    /\ IF ~active
       THEN /\ active' = IF normals_connect_count_ > 0 THEN TRUE ELSE active
            /\ Goto(t, "idle", {})
       ELSE /\ active' = active
            /\ IF NormalsPublishes
               THEN Goto(t, "normals_lock", {})
               ELSE Goto(t, "idle", {})
    /\ UNCHANGED <<counters, config, stamps, pcd_, observed, lock_, extra>>

\* variant: the marker loop runs without the scoped_lock
NormalsNoLock(t) ==
    /\ At(t, "normals_lock")
    /\ Goto(t, "normals_read", {})
    /\ UNCHANGED <<counters, active, config, stamps, pcd_, observed, lock_, extra>>

NormalsLock(t) ==
    /\ At(t, "normals_lock")
    /\ Acquire(t)
    /\ Goto(t, "normals_read", {})
    /\ UNCHANGED <<counters, active, config, stamps, pcd_, observed, extra>>

\* the marker loop: reads pcd_
NormalsRead(t) ==
    /\ At(t, "normals_read")
    /\ Goto(t, "normals_publish", {"pcd_"})
    /\ UNCHANGED <<counters, active, config, stamps, pcd_, observed, lock_, extra>>

\* publish of the local marker array
NormalsPublish(t) ==
    /\ At(t, "normals_publish")
    /\ Goto(t, "normals_unlock", {})
    /\ UNCHANGED <<counters, active, config, stamps, pcd_, observed, lock_, extra>>

NormalsUnlock(t) ==
    /\ At(t, "normals_unlock")
    /\ Release(t)
    /\ Goto(t, "idle", {})
    /\ UNCHANGED <<counters, active, config, stamps, pcd_, observed, extra>>

ThreadNext ==
    \E t \in Threads :
       \/ DepthFrameEnter(t)
       \/ FillPointdCloudLock(t)
       \/ FillPointdCloudFill(t)
       \/ FillPointdCloudPublish(t)
       \/ FillPointdCloudUnlock(t)
       \/ DepthFrameRasterCheck(t)
       \/ FillDepthImageLock(t)
       \/ FillDepthImageFill(t)
       \/ FillDepthImagePublish(t)
       \/ FillDepthImageUnlock(t)
       \/ RGBPointCloudEnter(t)
       \/ RGBPointCloudLock(t)
       \/ RGBPointCloudFill(t)
       \/ RGBPointCloudPublish(t)
       \/ RGBPointCloudUnlock(t)
       \/ ReflectanceEnter(t)
       \/ ReflectanceLock(t)
       \/ ReflectanceFill(t)
       \/ ReflectancePublish(t)
       \/ ReflectanceUnlock(t)
       \/ NormalsEnter(t)
       \/ NormalsLock(t)
       \/ NormalsRead(t)
       \/ NormalsPublish(t)
       \/ NormalsUnlock(t)

ThreadSpec == ThreadInit /\ [][ThreadNext]_vars


(***************************************************************************)
(* Properties of the lock (checked under ThreadSpec)                       *)
(***************************************************************************)
\* thread t is between the first buffer access of a read-modify-publish
\* sequence and the unlock that ends it
InSequence(t) ==
    thr[t].pc \in {"cloud_fill", "cloud_publish", "cloud_unlock",
                   "raster_fill", "raster_publish", "raster_unlock",
                   "rgb_fill", "rgb_publish", "rgb_unlock",
                   "reflectance_fill", "reflectance_publish", "reflectance_unlock",
                   "normals_read", "normals_publish", "normals_unlock"}

\* thread t is blocked in lock_.lock()
Waiting(t) ==
    thr[t].pc \in {"cloud_lock", "raster_lock", "rgb_lock",
                   "reflectance_lock", "normals_lock"}

\* C10: every access to pcd_, point_cloud_msg_, depth_image_msg_ and
\* reflectance_msg_ is made by the thread that holds lock_, the lock is held
\* from the first access of a sequence through its publish, and no two threads
\* are inside such a sequence at the same time.
C10_LockDiscipline ==
    /\ \A t \in Threads : thr[t].touch # {} => lock_ = t
    /\ \A t \in Threads : InSequence(t) => lock_ = t
    /\ \A t1, t2 \in Threads :
          (t1 # t2) => ~(InSequence(t1) /\ InSequence(t2))

\* one thread has just written pcd_ while another waits for the lock
C10_Witness ==
    \E t1, t2 \in Threads :
       /\ t1 # t2
       /\ thr[t1].touch = {"pcd_"}
       /\ Waiting(t2)


(***************************************************************************)
(* The conversions of one depth frame: projection into the point cloud and *)
(* the PointGrid, the depth raster, and the copy of an RGB point cloud     *)
(***************************************************************************)
\* largest width / height of a converted frame
MaxSide == 2
\* largest number of pixels of a converted frame
MaxPixels == 4
\* a fraction of a millimetre above one half, in ticks
SubMillimetre == 6
\* ticks in one millimetre: depth * 1000.0 is depth / TicksPerMm
TicksPerMm == 10

ConvSizes == {sz \in (1..MaxSide) \X (1..MaxSide) : sz[1] * sz[2] <= MaxPixels}

\* depth samples: no return, at the cutoff, just above it, between two
\* millimetres, and beyond the 16-bit range
Samples == {0, point_cloud_cutoff_, point_cloud_cutoff_ + 1,
            point_cloud_cutoff_ + SubMillimetre, MaxDepth}
SampleFrames(w, h) == [1..(w * h) -> Samples]

\* entries (x, y, z, rgb) the sensor may deliver in an RGB point cloud
RGBEntries == {<<0, 0, MaxDepth, 0>>, <<NaN, NaN, NaN, 0>>, <<0, 0, 0, 0>>}
\* RGB point clouds: valid entries, the first one any entry; the packed colour
\* of a later entry tells its position in the input
RGBClouds(w, h) ==
    {[k \in 1..(w * h) |-> IF k = 1 THEN e ELSE <<0, 0, MaxDepth, k - 1>>] :
        e \in RGBEntries}

\* variant: the packed RGB bytes are read column-major
FusedColorColumnMajor(data, rows, cols, j, i) ==
    IF Len(data) = rows * cols * 3
    THEN <<data[j * 3 + i * rows * 3 + 1], data[j * 3 + i * rows * 3 + 2],
           data[j * 3 + i * rows * 3 + 3]>>
    ELSE IF Len(data) = rows * cols
         THEN <<data[i + j * cols + 1], data[i + j * cols + 1],
                data[i + j * cols + 1]>>
         ELSE <<0, 0, 0>>

\* iter_rgb[0..2] of pixel (i, j): the colour taken from image_msg_.data
FusedColor(data, rows, cols, j, i) ==
    IF Len(data) = rows * cols * 3
    THEN <<data[i * 3 + j * cols * 3 + 1], data[i * 3 + j * cols * 3 + 2],
           data[i * 3 + j * cols * 3 + 3]>>
    ELSE IF Len(data) = rows * cols
         THEN <<data[i + j * cols + 1], data[i + j * cols + 1],
                data[i + j * cols + 1]>>
         ELSE <<0, 0, 0>>

\* conversion of a double to uint16_t: truncation toward zero; a value that
\* does not fit is undefined: the low 16 bits, or the largest value
ToUint16(mm, wraps) ==
    IF mm < 65536 THEN mm ELSE IF wraps THEN mm % 65536 ELSE 65535

\* the entry FillDepthImageHelper writes for one sample
RasterEntry(depth, fmt16, wraps) ==
    IF depth > point_cloud_cutoff_
    THEN IF ~fmt16 THEN depth ELSE ToUint16(depth \div TicksPerMm, wraps)
    ELSE IF ~fmt16 THEN NaN ELSE 0

FillDepthImageHelper(rows, cols, src, fmt16, wraps) ==
    [by |-> "FillDepthImage",
     encoding |-> IF fmt16 THEN "16UC1" ELSE "32FC1",
     data |-> [k \in 1..(rows * cols) |-> RasterEntry(src[k], fmt16, wraps)]]

\* a loaded, initialized and active plugin with point-cloud, normals and
\* depth-raster consumers attached, before its first frame
Converting ==
    /\ point_cloud_connect_count_ = MaxCount
    /\ normals_connect_count_ = MaxCount
    /\ depth_image_connect_count_ = MaxCount
    /\ depth_info_connect_count_ = 0
    /\ reflectance_connect_count_ = 0
    /\ image_connect_count_ = 2 * MaxCount
    /\ active = TRUE
    /\ initialized_ = TRUE
    /\ depth_sensor_update_time_ = 0
    /\ sensor_update_time_ = 0
    /\ pcd_ = NullPcd
    /\ call = "none"
    /\ entryActive = TRUE
    /\ entryCounts = <<MaxCount, MaxCount, MaxCount, 0, 0, 2 * MaxCount>>
    /\ requests = <<>>
    /\ published = {}
    /\ lock_ = 0
    /\ thr = [t \in Threads |-> [pc |-> "idle", touch |-> {}]]
    /\ point_cloud_msg_ = NoMsg
    /\ depth_image_msg_ = NoMsg
    /\ m_array = NoMsg
    /\ NothingCompleted
    /\ NoTransform

ProjectionInit ==
    /\ Converting
    /\ \E sz \in ConvSizes :
          /\ width_ = sz[1]
          /\ height_ = sz[2]
          /\ toCopyFrom \in SampleFrames(sz[1], sz[2])
    /\ use_depth_image_16UC1_format_ \in BOOLEAN
    /\ image_msg_ = <<>>
    /\ reduce_normals_ = DefaultReduceNormals

\* FillPointdCloud: the cloud message and the PointGrid of the depth frame
FillPointdCloud ==
    LET filled == FillPointCloudHelper(height_, width_, toCopyFrom)
    IN /\ pcd_' = filled.pcd
       /\ point_cloud_msg_' =
            [by |-> "FillPointdCloud",
             points |-> filled.points,
             rgb |-> [k \in 1..(height_ * width_) |->
                        FusedColor(image_msg_, height_, width_,
                                   (k - 1) \div width_, (k - 1) % width_)],
             is_dense |-> filled.is_dense]
       /\ UNCHANGED <<counters, active, config, stamps, observed, threads,
                      toCopyFrom, use_depth_image_16UC1_format_, image_msg_,
                      reduce_normals_, depth_image_msg_, m_array, completed, parser>>

\* FillDepthImage: the raster message of the depth frame
FillDepthImage ==
    /\ \E wraps \in BOOLEAN :
          depth_image_msg_' = FillDepthImageHelper(height_, width_, toCopyFrom,
                                 use_depth_image_16UC1_format_, wraps)
    /\ UNCHANGED <<counters, active, config, stamps, pcd_, observed, threads,
                   toCopyFrom, use_depth_image_16UC1_format_, image_msg_,
                   reduce_normals_, point_cloud_msg_, m_array, completed, parser>>

\* the cloud message OnNewRGBPointCloud builds: the iterators advance one
\* point per step of the loop "i outer, j inner" while the entry read is
\* (j * _width) + i
RGBCloudMessage(_pcd, _width, _height) ==
    [by |-> "OnNewRGBPointCloud",
     points |-> [n \in 1..(_width * _height) |->
                   LET e == _pcd[((n - 1) % _height) * _width
                                   + ((n - 1) \div _height) + 1]
                   IN <<e[1], e[2], e[3]>>],
     rgb |-> [n \in 1..(_width * _height) |->
                   _pcd[((n - 1) % _height) * _width
                          + ((n - 1) \div _height) + 1][4]],
     is_dense |-> TRUE]

\* the locked part of OnNewRGBPointCloud: memcpy into pcd_, then the message
CopyRGBPointCloud ==
    /\ \E _pcd \in RGBClouds(width_, height_) :
          /\ pcd_' = [null |-> FALSE, data |-> _pcd]
          /\ point_cloud_msg_' = RGBCloudMessage(_pcd, width_, height_)
    /\ UNCHANGED <<counters, active, config, stamps, observed, threads,
                   toCopyFrom, use_depth_image_16UC1_format_, image_msg_,
                   reduce_normals_, depth_image_msg_, m_array, completed, parser>>

ProjectionNext == FillPointdCloud \/ FillDepthImage \/ CopyRGBPointCloud

ProjectionSpec == ProjectionInit /\ [][ProjectionNext]_vars


(***************************************************************************)
(* Properties of the conversions (checked under ProjectionSpec)            *)
(***************************************************************************)
Pixels == 1..(width_ * height_)

\* a point or PointGrid entry with a non-finite coordinate
NonFinite(pt) == pt[1] = NaN \/ pt[2] = NaN \/ pt[3] = NaN

\* the cloud message in hand was built by the projection of toCopyFrom
Projected == point_cloud_msg_.by = "FillPointdCloud"

\* C12: for every sample d > cutoff the projected point has z = d and is
\* finite; for every sample d <= cutoff, d equal to the cutoff included, x, y
\* and z are all the sentinel; the dense flag is true iff every sample of the
\* frame is > cutoff.
C12_CutoffClassification ==
    Projected =>
      /\ \A k \in Pixels :
            IF toCopyFrom[k] > point_cloud_cutoff_
            THEN /\ point_cloud_msg_.points[k][3] = toCopyFrom[k]
                 /\ ~NonFinite(point_cloud_msg_.points[k])
            ELSE point_cloud_msg_.points[k] = <<NaN, NaN, NaN>>
      /\ point_cloud_msg_.is_dense
            = (\A k \in Pixels : toCopyFrom[k] > point_cloud_cutoff_)

\* a frame with a sample at the cutoff and a sample above it was projected
C12_Witness ==
    /\ Projected
    /\ \E k \in Pixels : toCopyFrom[k] = point_cloud_cutoff_
    /\ \E k \in Pixels : toCopyFrom[k] > point_cloud_cutoff_

\* C13: every cloud message, built by the projection or by the RGB
\* point-cloud path, has its dense flag false iff at least one of its points
\* is non-finite.
C13_DenseFlag ==
    point_cloud_msg_.by # "none" =>
       (~point_cloud_msg_.is_dense
          <=> \E k \in Pixels : NonFinite(point_cloud_msg_.points[k]))

\* C14: for every pixel whose sample d is <= cutoff the projection stores a
\* z-slot of 0 and keeps d*tan(horizontalAngle), d*tan(verticalAngle) in the
\* x and y slots of the PointGrid.
C14_GridKeepsTangents ==
    Projected =>
       \A k \in Pixels :
          toCopyFrom[k] <= point_cloud_cutoff_ =>
             /\ pcd_.data[k][3] = 0
             /\ pcd_.data[k][1] = toCopyFrom[k] * TanNum((k - 1) % width_, width_)
             /\ pcd_.data[k][2] = toCopyFrom[k] * TanNum((k - 1) \div width_, height_)

\* C14 amended: for every pixel whose sample d is <= cutoff the projection
\* stores a z-slot of 0 and the non-finite sentinel in the x and y slots of
\* the PointGrid, the same x and y it wrote to the message.
C14_GridHoldsSentinel ==
    Projected =>
       \A k \in Pixels :
          toCopyFrom[k] <= point_cloud_cutoff_ =>
             /\ pcd_.data[k][3] = 0
             /\ pcd_.data[k][1] = NaN
             /\ pcd_.data[k][2] = NaN
             /\ pcd_.data[k][1] = point_cloud_msg_.points[k][1]
             /\ pcd_.data[k][2] = point_cloud_msg_.points[k][2]

\* a frame wider than one pixel with a sample at or below the cutoff in its
\* last column was projected
C14_Witness ==
    /\ Projected
    /\ width_ > 1
    /\ toCopyFrom[width_] <= point_cloud_cutoff_
    /\ toCopyFrom[width_] > 0

\* C15: once the PointGrid is populated, after any sequence of depth-frame
\* and RGB point-cloud callbacks, each entry's z-slot is a finite value at or
\* above the cutoff or exactly 0, and it is 0 exactly for the entries whose
\* x/y were marked invalid.
C15_GridZSlot ==
    ~pcd_.null =>
       \A k \in Pixels :
          /\ \/ pcd_.data[k][3] = 0
             \/ (pcd_.data[k][3] # NaN /\ pcd_.data[k][3] >= point_cloud_cutoff_)
          /\ (pcd_.data[k][3] = 0)
                <=> (pcd_.data[k][1] = NaN /\ pcd_.data[k][2] = NaN)

\* a raster entry that is the invalid marker of its encoding
InvalidEntry(v) ==
    IF depth_image_msg_.encoding = "16UC1" THEN v = 0 ELSE v = NaN

\* C16: for every pixel of a depth frame and both raster encodings, the
\* raster entry is the invalid marker iff the sample is <= cutoff, iff the
\* cloud point of the same pixel is the sentinel.
C16_SameCutoffPolicy ==
    (depth_image_msg_.by # "none" /\ Projected) =>
       \A k \in Pixels :
          /\ InvalidEntry(depth_image_msg_.data[k])
                <=> (toCopyFrom[k] <= point_cloud_cutoff_)
          /\ (toCopyFrom[k] <= point_cloud_cutoff_)
                <=> (point_cloud_msg_.points[k] = <<NaN, NaN, NaN>>)

\* round(d * 1000) clamped to the 16-bit unsigned range
RoundedClamped(depth) ==
    IF (depth + 5) \div TicksPerMm < 65536
    THEN (depth + 5) \div TicksPerMm
    ELSE 65535

\* C17: with the 16-bit millimetre encoding, for every sample d > cutoff the
\* raster entry equals round(d*1000) clamped to 0..65535.
C17_RoundedAndClamped ==
    (depth_image_msg_.by # "none" /\ depth_image_msg_.encoding = "16UC1") =>
       \A k \in Pixels :
          toCopyFrom[k] > point_cloud_cutoff_ =>
             depth_image_msg_.data[k] = RoundedClamped(toCopyFrom[k])


(***************************************************************************)
(* Colour fusion and the normals markers                                   *)
(***************************************************************************)
\* largest decimation stride
MaxStride == 2
\* largest value of the first byte of a colour buffer
MaxOffset == 1

\* image_msg_.data: absent, mono, packed RGB, or of another length; the
\* bytes count up from the first one
ColorLengths(w, h) == {0, w * h, w * h * 2, w * h * 3, w * h * 3 + 1}
ColorBuffers(w, h) ==
    {[k \in 1..len |-> (o + k - 1) % 256] :
        len \in ColorLengths(w, h), o \in 0..MaxOffset}

\* variant: every index gets a marker
MarkerKeptAlways(index, stride) == TRUE

\* plotting some of the normals: the index is a multiple of the stride
MarkerKept(index, stride) == index % stride = 0

\* the indices of the marker loop: i outer, j inner, index = (j * _width) + i
LoopOrder(_width, _height) ==
    [n \in 1..(_width * _height) |->
        ((n - 1) % _height) * _width + ((n - 1) \div _height)]

\* the marker array OnNewNormalsFrame builds under the lock
Markers(grid, _width, _height, stride) ==
    IF grid.null
    THEN <<>>
    ELSE LET Keep(index) == MarkerKept(index, stride)
             kept == SelectSeq(LoopOrder(_width, _height), Keep)
         IN [m \in 1..Len(kept) |->
               [id |-> kept[m],
                position |-> <<grid.data[kept[m] + 1][1],
                               grid.data[kept[m] + 1][2],
                               grid.data[kept[m] + 1][3]>>]]

DecorationInit ==
    /\ Converting
    /\ \E sz \in ConvSizes :
          /\ width_ = sz[1]
          /\ height_ = sz[2]
          /\ toCopyFrom \in FlatDepthFrames(sz[1], sz[2])
          /\ image_msg_ \in ColorBuffers(sz[1], sz[2])
    /\ use_depth_image_16UC1_format_ = FALSE
    /\ reduce_normals_ \in 1..MaxStride

\* the locked part of OnNewNormalsFrame on an active device with a normals
\* consumer: the marker loop and the publish
NormalsMarkers ==
    /\ m_array' = [by |-> "OnNewNormalsFrame",
                   grid |-> ~pcd_.null,
                   markers |-> Markers(pcd_, width_, height_, reduce_normals_)]
    /\ UNCHANGED <<counters, active, config, stamps, pcd_, observed, threads,
                   toCopyFrom, use_depth_image_16UC1_format_, image_msg_,
                   reduce_normals_, point_cloud_msg_, depth_image_msg_,
                   completed, parser>>

DecorationNext == FillPointdCloud \/ NormalsMarkers

DecorationSpec == DecorationInit /\ [][DecorationNext]_vars


(***************************************************************************)
(* Properties of the markers and the colours (checked under DecorationSpec)*)
(***************************************************************************)
\* the flat indices of the frame that are multiples of the stride
Decimated == {k \in 0..(width_ * height_ - 1) : k % reduce_normals_ = 0}

\* the marker array has exactly one marker per decimated index, whose
\* identifier is that index
OnePerDecimatedIndex ==
    /\ {m_array.markers[m].id : m \in DOMAIN m_array.markers} = Decimated
    /\ Len(m_array.markers) = Cardinality(Decimated)

\* C18: every normals frame delivered while the normals counter is > 0 and
\* the device is active, in any reachable state, before the first projection
\* included, publishes exactly one marker per flat index of 0..W*H-1 that is
\* divisible by N, each with its flat index as identifier.
C18_Decimation ==
    m_array.by # "none" => OnePerDecimatedIndex

\* C18 amended: such a frame publishes exactly one marker per flat index
\* divisible by N, with that index as identifier, when the PointGrid has been
\* populated; before the first depth frame or RGB point cloud has populated
\* it, the published marker array is empty.
C18_DecimationOfGrid ==
    m_array.by # "none" =>
       IF m_array.grid THEN OnePerDecimatedIndex ELSE m_array.markers = <<>>

\* markers were built from a populated grid of several pixels with a stride
\* that skips some of them
C18_Witness ==
    /\ m_array.by # "none"
    /\ m_array.grid
    /\ reduce_normals_ > 1
    /\ width_ * height_ > reduce_normals_

\* C19: colour fusion never aborts the conversion and selects by buffer
\* length: W*H*3 bytes: point (i, j) gets the bytes at i*3 + j*W*3 + {0,1,2};
\* W*H bytes: the byte at i + j*W in all three channels; any other length,
\* the absent buffer included: all three channels 0.
C19_ColorFusion ==
    Projected =>
       \A j \in 0..(height_ - 1), i \in 0..(width_ - 1) :
          LET fused == point_cloud_msg_.rgb[j * width_ + i + 1]
          IN IF Len(image_msg_) = width_ * height_ * 3
             THEN fused = <<image_msg_[i * 3 + j * width_ * 3 + 1],
                            image_msg_[i * 3 + j * width_ * 3 + 2],
                            image_msg_[i * 3 + j * width_ * 3 + 3]>>
             ELSE IF Len(image_msg_) = width_ * height_
                  THEN /\ fused[1] = image_msg_[i + j * width_ + 1]
                       /\ fused[2] = fused[1]
                       /\ fused[3] = fused[1]
                  ELSE fused = <<0, 0, 0>>

\* a cloud of several rows and columns was built with no colour buffer, or
\* one of a mismatched length, cached
C19_Witness ==
    /\ Projected
    /\ width_ > 1 /\ height_ > 1
    /\ Len(image_msg_) \notin {width_ * height_, width_ * height_ * 3}


(***************************************************************************)
(* Load: parsing of cameraFrameToPointCloudFrame                           *)
(* A std::string is a sequence of one-character strings.                   *)
(***************************************************************************)
\* largest digit of a numeric token
MaxDigit == 1
\* std::string::npos as the signed value whose successor is 0
Npos == -1

DigitChars == <<"0", "1", "2", "3", "4", "5", "6", "7", "8", "9">>
Digit(c) == CHOOSE d \in 0..9 : DigitChars[d + 1] = c

\* the numeric tokens: one digit each
Tokens == {<<DigitChars[d + 1]>> : d \in 0..MaxDigit}

\* six tokens separated by single spaces
SixTokens ==
    {t[1] \o <<" ">> \o t[2] \o <<" ">> \o t[3] \o <<" ">> \o t[4] \o <<" ">>
       \o t[5] \o <<" ">> \o t[6] : t \in [1..6 -> Tokens]}

\* str.find_first_of(ch): the 0-based position of the first ch, or npos
FindFirstOf(str, ch) ==
    IF \E k \in 1..Len(str) : str[k] = ch
    THEN (CHOOSE k \in 1..Len(str) :
             str[k] = ch /\ \A l \in 1..(k - 1) : str[l] # ch) - 1
    ELSE Npos

\* str.substr(pos, count); count = npos: up to the end
Substr(str, pos, count) ==
    IF count = Npos \/ pos + count > Len(str)
    THEN SubSeq(str, pos + 1, Len(str))
    ELSE SubSeq(str, pos + 1, pos + count)

RECURSIVE Stod(_)
\* std::stod of a string of digits
Stod(str) ==
    IF str = <<>> THEN 0
    ELSE 10 * Stod(SubSeq(str, 1, Len(str) - 1)) + Digit(str[Len(str)])

\* pose[k], 0-based; past the end of the vector the read is undefined
PoseAt(k, junk) == IF k < Len(pose) THEN pose[k + 1] ELSE junk

\* Load up to the parsing loop, the element present
LoadInit ==
    /\ point_cloud_connect_count_ = 0
    /\ normals_connect_count_ = 0
    /\ depth_image_connect_count_ = 0
    /\ depth_info_connect_count_ = 0
    /\ reflectance_connect_count_ = 0
    /\ image_connect_count_ = 0
    /\ active = FALSE
    /\ initialized_ = FALSE
    /\ width_ = MaxWidth
    /\ height_ = MaxHeight
    /\ depth_sensor_update_time_ = 0
    /\ sensor_update_time_ = 0
    /\ pcd_ = NullPcd
    /\ call = "none"
    /\ entryActive = FALSE
    /\ entryCounts = <<0, 0, 0, 0, 0, 0>>
    /\ requests = <<>>
    /\ published = {}
    /\ lock_ = 0
    /\ thr = [t \in Threads |-> [pc |-> "idle", touch |-> {}]]
    /\ NoConversion
    /\ NothingCompleted
    /\ cameraFrameToPointCloudFrame \in SixTokens
    /\ trafostring = cameraFrameToPointCloudFrame
    /\ token = <<>>
    /\ pose = <<>>
    /\ parsed = FALSE
    /\ tf_ = IdentityTransform

\* one turn of the loop: while (token != trafostring) { ... }
ParseToken ==
    /\ ~parsed
    /\ token # trafostring
    /\ token' = Substr(trafostring, 0, FindFirstOf(trafostring, " "))
    /\ pose' = Append(pose, Stod(token'))
    /\ trafostring' = Substr(trafostring, FindFirstOf(trafostring, " ") + 1, Npos)
    /\ UNCHANGED <<counters, active, config, stamps, pcd_, observed, threads,
                   conversion, completed, cameraFrameToPointCloudFrame, parsed, tf_>>

\* the loop is left and tf_ is filled from pose[0] .. pose[5]
ParseDone ==
    /\ ~parsed
    /\ token = trafostring
    /\ parsed' = TRUE
    /\ \E junk \in 0..MaxDigit :
          tf_' = [translation |-> <<PoseAt(0, junk), PoseAt(1, junk), PoseAt(2, junk)>>,
                  rpy |-> <<PoseAt(3, junk), PoseAt(4, junk), PoseAt(5, junk)>>]
    /\ UNCHANGED <<counters, active, config, stamps, pcd_, observed, threads,
                   conversion, completed, cameraFrameToPointCloudFrame,
                   trafostring, token, pose>>

LoadNext == ParseToken \/ ParseDone

LoadSpec == LoadInit /\ [][LoadNext]_vars


(***************************************************************************)
(* Properties of the parsing loop (checked under LoadSpec)                 *)
(***************************************************************************)
\* the value of the k-th token of the element: tokens are one character
\* long, so the k-th token is the character at 2k - 1
TokenValue(k) == Digit(cameraFrameToPointCloudFrame[2 * k - 1])

\* C20: for every string of six numeric tokens separated by single spaces,
\* strings with textually equal adjacent or final tokens included, the loop
\* ends with exactly those six values collected in order, the first three
\* the translation and the last three roll, pitch and yaw.
C20_SixValuesParsed ==
    (parsed /\ cameraFrameToPointCloudFrame # <<>>) =>
       /\ pose = [k \in 1..6 |-> TokenValue(k)]
       /\ tf_.translation = <<TokenValue(1), TokenValue(2), TokenValue(3)>>
       /\ tf_.rpy = <<TokenValue(4), TokenValue(5), TokenValue(6)>>


(***************************************************************************)
(* The PointGrid under concurrent callbacks: the writes of pcd_ are not    *)
(* atomic, a write is its first store followed by the rest                 *)
(***************************************************************************)
\* a plugin with point-cloud and normals consumers on an active device
GridInit ==
    /\ ThreadInit
    /\ point_cloud_connect_count_ = MaxCount
    /\ normals_connect_count_ = MaxCount
    /\ depth_image_connect_count_ = 0
    /\ reflectance_connect_count_ = 0
    /\ active = TRUE

\* pcd_ after the first store of a write of the grid new: slot `slot` of the
\* first entry; a grid allocated by this write holds indeterminate values
FirstStore(old, new, slot, junk) ==
    LET before == IF old.null
                  THEN [k \in DOMAIN new.data |-> <<junk, junk, junk, junk>>]
                  ELSE old.data
    IN [null |-> FALSE,
        data |-> [before EXCEPT ![1] = [before[1] EXCEPT ![slot] = new.data[1][slot]]]]

\* FillPointCloudHelper, up to its first store: pcd_[4 * index + 2]
FillPointCloudHelperBegin(t) ==
    /\ At(t, "cloud_fill")
    /\ \E _image \in FlatDepthFrames(width_, height_), junk \in {0, NaN} :
          /\ toCopyFrom' = _image
          /\ pcd_' = FirstStore(pcd_, FillPointCloudHelper(height_, width_, _image).pcd,
                                3, junk)
    /\ Goto(t, "cloud_filling", {"pcd_"})
    /\ UNCHANGED <<counters, active, config, stamps, observed, lock_,
                   use_depth_image_16UC1_format_, image_msg_, reduce_normals_,
                   point_cloud_msg_, depth_image_msg_, m_array, completed, parser>>

\* FillPointCloudHelper, the rest of its loop: the projection is complete
FillPointCloudHelperEnd(t) ==
    /\ At(t, "cloud_filling")
    /\ pcd_' = FillPointCloudHelper(height_, width_, toCopyFrom).pcd
    /\ projected' = pcd_'
    /\ written' = pcd_'
    /\ Goto(t, "cloud_publish", {"pcd_"})
    /\ UNCHANGED <<counters, active, config, stamps, observed, lock_,
                   conversion, parser>>

\* OnNewRGBPointCloud: allocation of pcd_ and the first store of memcpy
RGBPointCloudCopyBegin(t) ==
    /\ At(t, "rgb_fill")
    /\ \E _pcd \in FlatRGBFrames(width_, height_), junk \in {0, NaN} :
          /\ toCopyFrom' = _pcd
          /\ pcd_' = FirstStore(pcd_, [null |-> FALSE, data |-> _pcd], 1, junk)
    /\ Goto(t, "rgb_filling", {"pcd_"})
    /\ UNCHANGED <<counters, active, config, stamps, observed, lock_,
                   use_depth_image_16UC1_format_, image_msg_, reduce_normals_,
                   point_cloud_msg_, depth_image_msg_, m_array, completed, parser>>

\* OnNewRGBPointCloud: the rest of memcpy
RGBPointCloudCopyEnd(t) ==
    /\ At(t, "rgb_filling")
    /\ pcd_' = [null |-> FALSE, data |-> toCopyFrom]
    /\ written' = pcd_'
    /\ Goto(t, "rgb_publish", {"pcd_"})
    /\ UNCHANGED <<counters, active, config, stamps, observed, lock_,
                   conversion, projected, parser>>

\* OnNewNormalsFrame: the marker loop reads pcd_ into the marker array
NormalsMarkersRead(t) ==
    /\ At(t, "normals_read")
    /\ m_array' = [by |-> "OnNewNormalsFrame",
                   grid |-> ~pcd_.null,
                   markers |-> Markers(pcd_, width_, height_, reduce_normals_)]
    /\ Goto(t, "normals_publish", {"pcd_"})
    /\ UNCHANGED <<counters, active, config, stamps, pcd_, observed, lock_,
                   toCopyFrom, use_depth_image_16UC1_format_, image_msg_,
                   reduce_normals_, point_cloud_msg_, depth_image_msg_,
                   completed, parser>>

GridNext ==
    \E t \in Threads :
       \/ DepthFrameEnter(t)
       \/ FillPointdCloudLock(t)
       \/ FillPointCloudHelperBegin(t)
       \/ FillPointCloudHelperEnd(t)
       \/ FillPointdCloudPublish(t)
       \/ FillPointdCloudUnlock(t)
       \/ DepthFrameRasterCheck(t)
       \/ RGBPointCloudEnter(t)
       \/ RGBPointCloudLock(t)
       \/ RGBPointCloudCopyBegin(t)
       \/ RGBPointCloudCopyEnd(t)
       \/ RGBPointCloudPublish(t)
       \/ RGBPointCloudUnlock(t)
       \/ NormalsEnter(t)
       \/ NormalsLock(t)
       \/ NormalsMarkersRead(t)
       \/ NormalsPublish(t)
       \/ NormalsUnlock(t)

GridSpec == GridInit /\ [][GridNext]_vars


(***************************************************************************)
(* Properties of the markers' positions (checked under GridSpec)           *)
(***************************************************************************)
\* a normals callback has built its marker array and not yet published it
MarkersBuilt == \E t \in Threads : At(t, "normals_publish")

\* C11: under any interleaving of the callbacks, every marker emitted for
\* flat index k has as position the (x, y, z) that the most recently
\* completed depth-frame projection stored for k: never a partially written
\* grid, never data written by another callback kind.
C11_MarkersFromProjection ==
    MarkersBuilt =>
       m_array.markers = Markers(projected, width_, height_, reduce_normals_)

\* C11 amended: under any interleaving of the callbacks, every marker emitted
\* for flat index k has as position the (x, y, z) that the most recently
\* completed write of the PointGrid stored for k, a depth-frame projection or
\* the copy made by an RGB point-cloud callback; never a partially written
\* grid.
C11_MarkersFromLastWrite ==
    MarkersBuilt =>
       m_array.markers = Markers(written, width_, height_, reduce_normals_)

\* markers were built after an RGB point-cloud copy had overwritten the grid
\* of a completed projection
C11_Witness ==
    /\ MarkersBuilt
    /\ m_array.markers # <<>>
    /\ ~projected.null
    /\ written # projected


(***************************************************************************)
(* Properties of the counters (checked under Spec)                         *)
(***************************************************************************)
\* the five per-kind counters, now and when the last callback was entered
PerKind == <<point_cloud_connect_count_, normals_connect_count_,
             depth_image_connect_count_, depth_info_connect_count_,
             reflectance_connect_count_>>
EntryPerKind == <<EntryPointCloud, EntryNormals, EntryDepthImage,
                  EntryDepthInfo, EntryReflectance>>

\* position in PerKind of the counter a connect or disconnect callback owns
KindOf(name) ==
    CASE name \in {"PointCloudConnect", "PointCloudDisconnect"} -> 1
      [] name \in {"NormalsConnect", "NormalsDisconnect"} -> 2
      [] name \in {"DepthImageConnect", "DepthImageDisconnect"} -> 3
      [] name \in {"DepthInfoConnect", "DepthInfoDisconnect"} -> 4
      [] name \in {"ReflectanceConnect", "ReflectanceDisconnect"} -> 5

ConnectCalls == {"PointCloudConnect", "NormalsConnect", "DepthImageConnect",
                 "DepthInfoConnect", "ReflectanceConnect"}
DisconnectCalls == {"PointCloudDisconnect", "NormalsDisconnect",
                    "DepthImageDisconnect", "DepthInfoDisconnect",
                    "ReflectanceDisconnect"}

\* C21: the counters start at 0, every connect adds exactly one to its own
\* counter and every disconnect takes exactly one from it, leaving the other
\* four alone, so each counter is its kind's connects minus its disconnects,
\* and is >= 0 after a disconnect of a kind that had more connects than
\* disconnects; no frame callback changes a counter.
C21_CountersTrackSubscriptions ==
    /\ call = "none" => PerKind = <<0, 0, 0, 0, 0>>
    /\ call \in ConnectCalls =>
          PerKind = [EntryPerKind EXCEPT ![KindOf(call)] = @ + 1]
    /\ call \in DisconnectCalls =>
          /\ PerKind = [EntryPerKind EXCEPT ![KindOf(call)] = @ - 1]
          /\ EntryPerKind[KindOf(call)] > 0 => PerKind[KindOf(call)] >= 0
    /\ call \in FrameCalls \cup {"CameraUtilsInit"} => PerKind = EntryPerKind

\* a consumer of a kind left while every kind had at least as many connects
\* as disconnects
C21_Witness ==
    /\ call \in DisconnectCalls
    /\ EntryPerKind[KindOf(call)] > 0
    /\ \A k \in 1..5 : PerKind[k] >= 0

\* the combined counter minus the point-cloud, normals and reflectance ones
ImageSurplus ==
    image_connect_count_ - (point_cloud_connect_count_ + normals_connect_count_
                              + reflectance_connect_count_)
EntryImageSurplus ==
    EntryImage - (EntryPointCloud + EntryNormals + EntryReflectance)

\* C24: every callback preserves the difference between the combined image
\* counter and the sum of the point-cloud, normals and reflectance counters:
\* point-cloud, normals and reflectance connects and disconnects change both
\* by the same amount, every other callback leaves the combined counter
\* unchanged.
C24_ImageSurplusPreserved ==
    /\ ImageSurplus = EntryImageSurplus
    /\ call \in {"PointCloudConnect", "NormalsConnect", "ReflectanceConnect"}
          => image_connect_count_ = EntryImage + 1
    /\ call \in {"PointCloudDisconnect", "NormalsDisconnect", "ReflectanceDisconnect"}
          => image_connect_count_ = EntryImage - 1
    /\ call \in {"DepthImageConnect", "DepthImageDisconnect", "DepthInfoConnect",
                 "DepthInfoDisconnect", "CameraUtilsInit"} \cup FrameCalls
          => image_connect_count_ = EntryImage

\* a reflectance consumer attached while a point-cloud consumer was attached
C24_Witness ==
    /\ call = "ReflectanceConnect"
    /\ EntryPointCloud > 0
    /\ image_connect_count_ > 1


(***************************************************************************)
(* Order of the RGB point cloud (checked under ProjectionSpec)             *)
(***************************************************************************)
\* C25: OnNewRGBPointCloud preserves pixel order: the point at position k of
\* the published cloud carries the x, y, z and colour of the input entry at
\* flat index k, and the PointGrid copy holds the same entry at index k (the
\* PointGrid is the memcpy of the input, so the input entry k is pcd_.data[k]).
C25_RGBOrderPreserved ==
    point_cloud_msg_.by = "OnNewRGBPointCloud" =>
       \A k \in Pixels :
          /\ point_cloud_msg_.points[k]
                = <<pcd_.data[k][1], pcd_.data[k][2], pcd_.data[k][3]>>
          /\ point_cloud_msg_.rgb[k] = pcd_.data[k][4]


(***************************************************************************)
(* Lifetime of the PointGrid (checked under GridSpec)                      *)
(***************************************************************************)
\* the callback step that stores into pcd_ for the first time
Allocating(t) == At(t, "cloud_fill") \/ At(t, "rgb_fill")

\* a grid of width*height entries of four floats
FullSize(grid) ==
    /\ Len(grid.data) = width_ * height_
    /\ \A k \in 1..Len(grid.data) : Len(grid.data[k]) = 4

\* C22: the PointGrid is allocated at most once, by the first depth
\* projection or RGB point-cloud callback that runs, with size
\* width*height*4; once allocated it is never freed or resized, and
\* OnNewNormalsFrame never reads it while it is still unallocated.
C22_GridAllocatedOnce ==
    /\ [](~pcd_.null => FullSize(pcd_))
    /\ [](MarkersBuilt /\ ~m_array.grid => m_array.markers = <<>>)
    /\ [][/\ ~pcd_.null => (~pcd_'.null /\ Len(pcd_'.data) = Len(pcd_.data))
          /\ (pcd_.null /\ ~pcd_'.null) =>
                \E t \in Threads : Allocating(t) /\ lock_ = t /\ thr'[t] # thr[t]
         ]_vars

\* a second writer is about to store into a grid that an earlier callback
\* allocated, after a normals callback skipped its loop on the missing grid
C22_Witness ==
    /\ ~pcd_.null
    /\ ~written.null
    /\ \E t \in Threads : Allocating(t) /\ lock_ = t
    /\ m_array.by = "OnNewNormalsFrame"
    /\ ~m_array.grid


(***************************************************************************)
(* Delivery of depth rasters under fair delivery of depth frames           *)
(***************************************************************************)
\* the callbacks of Spec, with depth frames delivered again and again
FairSpec == Init /\ [][Next]_vars /\ WF_vars(OnNewDepthFrame)

\* a depth frame callback has just published a depth raster
RasterPublished == call = "OnNewDepthFrame" /\ "depth" \in published

\* a callback other than OnNewDepthFrame runs
OtherCallback ==
    \/ CameraUtilsInit \/ Connect \/ Disconnect
    \/ OnNewRGBPointCloud \/ OnNewReflectanceFrame
    \/ OnNewImageFrame \/ OnNewNormalsFrame

\* C23: no consumer is starved: from any state in which the depth-raster
\* counter is > 0, if depth frames keep being delivered, either a depth raster
\* is eventually published or the counter stops being > 0; a disconnect of
\* another output kind that deactivates the device does not leave it
\* inactive forever.  The behaviours in which the other callbacks never cease
\* are granted: the property is asked only of those that end in depth frames
\* alone.
C23_RasterEventuallyPublished ==
    \/ []<><<OtherCallback>>_vars
    \/ (Ready /\ depth_image_connect_count_ > 0)
          ~> (RasterPublished \/ depth_image_connect_count_ <= 0)


(***************************************************************************)
(* Progress of the callbacks that use the lock                             *)
(***************************************************************************)
\* thread t returns from lock_.lock()
Acquires(t) ==
    \/ FillPointdCloudLock(t)
    \/ FillDepthImageLock(t)
    \/ RGBPointCloudLock(t)
    \/ ReflectanceLock(t)
    \/ NormalsLock(t)

\* thread t, inside a callback and not blocked, runs its next step
Proceeds(t) ==
    \/ FillPointdCloudFill(t) \/ FillPointdCloudPublish(t) \/ FillPointdCloudUnlock(t)
    \/ DepthFrameRasterCheck(t)
    \/ FillDepthImageFill(t) \/ FillDepthImagePublish(t) \/ FillDepthImageUnlock(t)
    \/ RGBPointCloudFill(t) \/ RGBPointCloudPublish(t) \/ RGBPointCloudUnlock(t)
    \/ ReflectanceFill(t) \/ ReflectancePublish(t) \/ ReflectanceUnlock(t)
    \/ NormalsRead(t) \/ NormalsPublish(t) \/ NormalsUnlock(t)

\* the plugin after Load, active, with a consumer of every kind that makes a
\* callback take the lock
LockInit ==
    /\ ThreadInit
    /\ active
    /\ point_cloud_connect_count_ = MaxCount
    /\ normals_connect_count_ = MaxCount
    /\ depth_image_connect_count_ = MaxCount
    /\ reflectance_connect_count_ = MaxCount

\* the threads of ThreadSpec: a callback that has started runs on, and a
\* thread blocked in lock_.lock() is granted the lock if it is free again and
\* again; nothing obliges the simulator to deliver a frame
LockSpec ==
    /\ LockInit
    /\ [][ThreadNext]_vars
    /\ \A t \in Threads : WF_vars(Proceeds(t)) /\ SF_vars(Acquires(t))

\* no thread is inside a callback
NoCallbackRunning == \A t \in Threads : At(t, "idle")

====
